---- MODULE Spec2Model ----
(***************************************************************************)
(* Model of the State of Mika query client                                 *)
(* (src/public/plugins/State-of-Mika/som-data.ts): the routing and         *)
(* fallback policy of StateOfMikaApiClient.query and the request/result    *)
(* mapping of StateOfMikaApiClient.performQuery.                           *)
(*                                                                         *)
(* One query() invocation is followed from its entry to its return.  The   *)
(* only suspension point is the HTTP call inside performQuery; the         *)
(* transport's outcome is chosen by the environment.                       *)
(***************************************************************************)
EXTENDS Integers, Sequences, FiniteSets, TLC

VARIABLES
    apiKey,       \* this.apiKey, fixed by the constructor
    pc,           \* position of the query() invocation
    route,        \* which branch of query() the invocation is in
    text,         \* the query argument (a sequence of words)
    options,      \* the options argument of query()
    pending,      \* options handed to the performQuery call that runs next
    perfOpts,     \* options of every performQuery invocation so far
    perfResults,  \* result of every completed performQuery invocation
    calls,        \* the HTTP requests issued so far (axios calls)
    received,     \* what the transport did with each request
    ret,          \* the value query() resolved with, once it has
    log,          \* the lines handed to the logger by this invocation
    sessionId,    \* the sessionId constant of the performQuery call in flight
    clock         \* Date.now(), in ms since query() was entered

queryVars ==
    <<apiKey, pc, route, text, options, pending, perfOpts, perfResults,
      calls, received, ret, log, sessionId, clock>>

\* The life simulator client (LifeSimulatorApiClient) and its callers
VARIABLES
    lifeOptions,    \* the options the client was constructed with
    cacheDuration,  \* this.cacheDuration, fixed by the constructor
    cache,          \* this.cache: key -> [data, timestamp]
    configs,        \* the callers' config objects, by identity
    invs,           \* each caller's getLifeSimulation invocation
    lastClear,      \* who emptied the cache, if nothing was stored since
    now             \* Date.now()

lifeVars ==
    <<lifeOptions, cacheDuration, cache, configs, invs, lastClear, now>>

\* A call of one of the side-effect-free methods and what it gave
VARIABLES
    probe

\* The MongoDB connection module (part_006) and the callers of its functions
VARIABLES
    client,        \* the module's client variable: 0 is null, else an object
    mongoClients,  \* the MongoClient objects created so far, by state
    mongoCalls     \* each caller's getMongoClient/closeMongoConnection call

mongoVars == <<client, mongoClients, mongoCalls>>

\* The agent table of the Convex backend (convex/agent.ts)
VARIABLES
    agents,        \* the documents of table "agent", by id
    inserted,      \* how many documents were ever inserted
    agentCall      \* the mutation that ran last, and how it ended

agentVars == <<agents, inserted, agentCall>>

vars == <<queryVars, lifeVars, probe, mongoVars, agentVars>>

\* what the actions of one client leave alone
otherThanQuery == <<lifeVars, probe, mongoVars, agentVars>>
otherThanLife == <<queryVars, probe, mongoVars, agentVars>>
otherThanProbe == <<queryVars, lifeVars, mongoVars, agentVars>>
otherThanMongo == <<queryVars, lifeVars, probe, agentVars>>
otherThanAgents == <<queryVars, lifeVars, probe, mongoVars>>

----------------------------------------------------------------------------
(* Bounds *)

\* longest query text, in words
MaxWords == 2

\* the latest time the clock reaches
MaxTime == 1

\* the most milliseconds that pass during one query() invocation
MaxClock == 1

\* the most MongoClient objects created in one run
MaxClients == 2

\* the most documents inserted into the agent table in one run
MaxAgents == 2

----------------------------------------------------------------------------
(* JavaScript values *)

\* An optional property is <<>> when undefined and <<v>> when it holds v.
Undefined == <<>>
Some(v) == <<v>>

\* JavaScript truthiness of an optional string, boolean and number
TruthyStr(o) == o # Undefined /\ o[1] # ""
TruthyBool(o) == o # Undefined /\ o[1]
TruthyNum(o) == o # Undefined /\ o[1] # 0

\* the default (and intended floor) of the request timeout, in ms
DefaultTimeout == 30000

----------------------------------------------------------------------------
(* Query texts: sequences of words, read as sequences of characters *)

LowerChar(c) ==
    CASE c = "A" -> "a"
      [] c = "B" -> "b"
      [] c = "C" -> "c"
      [] c = "D" -> "d"
      [] c = "E" -> "e"
      [] c = "F" -> "f"
      [] c = "G" -> "g"
      [] c = "H" -> "h"
      [] c = "I" -> "i"
      [] c = "J" -> "j"
      [] c = "K" -> "k"
      [] c = "L" -> "l"
      [] c = "M" -> "m"
      [] c = "N" -> "n"
      [] c = "O" -> "o"
      [] c = "P" -> "p"
      [] c = "Q" -> "q"
      [] c = "R" -> "r"
      [] c = "S" -> "s"
      [] c = "T" -> "t"
      [] c = "U" -> "u"
      [] c = "V" -> "v"
      [] c = "W" -> "w"
      [] c = "X" -> "x"
      [] c = "Y" -> "y"
      [] c = "Z" -> "z"
      [] OTHER -> c

\* String.prototype.toLowerCase
ToLowerCase(s) == [i \in 1..Len(s) |-> LowerChar(s[i])]

\* String.prototype.includes
Includes(s, sub) ==
    \E i \in 0..(Len(s) - Len(sub)) : SubSeq(s, i + 1, i + Len(sub)) = sub

\* The words query texts are made of, and their spelling
Vocabulary == { "Bitcoin", "BTC", "price", "Worth", "Value", "sol" }

Spell(w) ==
    CASE w = "Bitcoin" -> <<"B","i","t","c","o","i","n">>
      [] w = "BTC" -> <<"B","T","C">>
      [] w = "price" -> <<"p","r","i","c","e">>
      [] w = "Worth" -> <<"W","o","r","t","h">>
      [] w = "Value" -> <<"V","a","l","u","e">>
      [] OTHER -> <<"s","o","l">>

\* the characters of a text: its words, separated by blanks
RECURSIVE Chars(_)
Chars(ws) ==
    IF Len(ws) = 0 THEN <<>>
    ELSE IF Len(ws) = 1 THEN Spell(ws[1])
    ELSE Spell(ws[1]) \o <<" ">> \o Chars(Tail(ws))

Texts == UNION { [1..n -> Vocabulary] : n \in 0..MaxWords }

\* IsBitcoinPriceQuery without the toLowerCase of line 142
IsBitcoinPriceQueryCaseSensitive(query) ==
    LET rawQuery == Chars(query)
        isBitcoinQuery ==
            \/ Includes(rawQuery, <<"b","i","t","c","o","i","n">>)
            \/ Includes(rawQuery, <<"b","t","c">>)
    IN  /\ isBitcoinQuery
        /\ \/ Includes(rawQuery, <<"p","r","i","c","e">>)
           \/ Includes(rawQuery, <<"w","o","r","t","h">>)
           \/ Includes(rawQuery, <<"v","a","l","u","e">>)

\* lines 142-146: the Bitcoin price test of query()
IsBitcoinPriceQuery(query) ==
    LET lowerQuery == ToLowerCase(Chars(query))
        isBitcoinQuery ==
            \/ Includes(lowerQuery, <<"b","i","t","c","o","i","n">>)
            \/ Includes(lowerQuery, <<"b","t","c">>)
    IN  /\ isBitcoinQuery
        /\ \/ Includes(lowerQuery, <<"p","r","i","c","e">>)
           \/ Includes(lowerQuery, <<"w","o","r","t","h">>)
           \/ Includes(lowerQuery, <<"v","a","l","u","e">>)

----------------------------------------------------------------------------
(* detectRelevance *)

\* lines 112-116
RelevantKeywords ==
    << <<"p","r","i","c","e">>,
       <<"m","a","r","k","e","t">>,
       <<"t","o","k","e","n">>,
       <<"c","r","y","p","t","o">>,
       <<"b","l","o","c","k","c","h","a","i","n">>,
       <<"s","o","l","a","n","a">>,
       <<"b","i","t","c","o","i","n">>,
       <<"e","t","h">>,
       <<"n","e","w","s">>,
       <<"l","a","t","e","s","t">>,
       <<"u","p","d","a","t","e">>,
       <<"a","n","a","l","y","s","i","s">>,
       <<"c","h","a","r","t">>,
       <<"t","r","a","d","i","n","g">>,
       <<"v","o","l","u","m","e">>,
       <<"d","e","f","i">>,
       <<"n","f","t">>,
       <<"y","i","e","l","d">>,
       <<"a","p","y">>,
       <<"l","i","q","u","i","d","i","t","y">> >>

\* the words the texts handed to detectRelevance are made of
RelevanceWords ==
    { <<"E","T","H">>,
      <<"M","e","t","h","o","d">>,
      <<"e","t">>,
      <<"h">>,
      <<"P","r","i","c","e">>,
      <<"h","e","l","l","o">>,
      <<"N","F","T","s">>,
      <<"l","i","q","u","i","d">>,
      <<"a","p","y">>,
      <<"C","h","a","r","t">>,
      <<"c","a","t">>,
      <<"d","e","f","i">> }

\* a text: its words, separated by blanks
RECURSIVE JoinWords(_)
JoinWords(ws) ==
    IF Len(ws) = 0 THEN <<>>
    ELSE IF Len(ws) = 1 THEN ws[1]
    ELSE ws[1] \o <<" ">> \o JoinWords(Tail(ws))

RelevanceTexts ==
    { JoinWords(ws) : ws \in UNION { [1..n -> RelevanceWords] : n \in 0..MaxWords } }

\* lines 119-124: the first keyword of the list that the text includes
RECURSIVE FirstKeyword(_, _)
FirstKeyword(s, i) ==
    IF i > Len(RelevantKeywords) THEN Undefined
    ELSE IF Includes(s, RelevantKeywords[i]) THEN Some(RelevantKeywords[i])
    ELSE FirstKeyword(s, i + 1)

\* DetectRelevance without the toLowerCase of line 118
DetectRelevanceCaseSensitive(query) ==
    LET found == FirstKeyword(query, 1)
    IN  [result |-> found # Undefined, logged |-> found]

\* lines 111-127: the value returned and the keyword of the debug line
DetectRelevance(query) ==
    LET queryLower == ToLowerCase(query)
        found == FirstKeyword(queryLower, 1)
    IN  [result |-> found # Undefined, logged |-> found]

----------------------------------------------------------------------------
(* Options *)

NoOptions ==
    [tool |-> Undefined, forceWebSearch |-> Undefined,
     sessionId |-> Undefined, timeout |-> Undefined,
     disableFallback |-> Undefined]

QueryOptions ==
    [tool : {Undefined, Some(""), Some("web_search"), Some("dexscreener")},
     forceWebSearch : {Undefined, Some(TRUE)},
     sessionId : {Undefined, Some("user-123")},
     timeout : {Undefined, Some(0), Some(5000), Some(60000)},
     disableFallback : {Undefined, Some(TRUE)}]

\* options.timeout || 30000
TimeoutOrDefault(o) ==
    IF TruthyNum(o.timeout) THEN o.timeout[1] ELSE DefaultTimeout

\* lines 148-153: options of the Bitcoin shortcut call
ShortcutOptions(o) ==
    [o EXCEPT !.forceWebSearch = Some(TRUE),
              !.timeout = Some(TimeoutOrDefault(o)),
              !.disableFallback = Some(TRUE)]

\* InitialOptions that forces web_search on the first call
InitialOptionsForced(o) ==
    [o EXCEPT !.forceWebSearch = Some(TRUE),
              !.disableFallback = Some(TRUE)]

\* lines 157-160: options of the first call
InitialOptions(o) ==
    [o EXCEPT !.disableFallback = Some(TRUE)]

\* FallbackOptions that forgets forceWebSearch
FallbackOptionsUnforced(o) ==
    [o EXCEPT !.timeout = Some(TimeoutOrDefault(o)),
              !.disableFallback = Some(TRUE)]

\* lines 183-188: options of the fallback call
FallbackOptions(o) ==
    [o EXCEPT !.forceWebSearch = Some(TRUE),
              !.timeout = Some(TimeoutOrDefault(o)),
              !.disableFallback = Some(TRUE)]

\* Route that tests for a Bitcoin price query before the guard flag
RouteBitcoinFirst(query, o) ==
    IF IsBitcoinPriceQuery(query) THEN "bitcoin"
    ELSE IF TruthyBool(o.disableFallback) THEN "guarded"
    ELSE "initial"

\* lines 137-156: the branch query() takes on entry
Route(query, o) ==
    IF TruthyBool(o.disableFallback) THEN "guarded"
    ELSE IF IsBitcoinPriceQuery(query) THEN "bitcoin"
    ELSE "initial"

\* options of the first performQuery call of each branch
FirstOptions(r, o) ==
    CASE r = "guarded" -> o
      [] r = "bitcoin" -> ShortcutOptions(o)
      [] OTHER -> InitialOptions(o)

\* detail.includes('DexScreenerResponse')
DetailHasMarker(d) == d = "DexScreenerResponse"

\* lines 167-171
IsDexScreenerError(result) ==
    /\ result.status = 500
    /\ result.raw # Undefined
    /\ TruthyStr(result.raw[1].detail)
    /\ DetailHasMarker(result.raw[1].detail[1])

\* MayFallback that recovers from the DexScreener validation error only
MayFallbackForMarker(r, o, result) ==
    /\ r = "initial"
    /\ IsDexScreenerError(result)
    /\ ~TruthyStr(o.tool)
    /\ ~TruthyBool(o.forceWebSearch)

\* MayFallback that retries after any failing call, the fallback included
MayFallbackRepeated(r, o, result) ==
    /\ result.status # 200
    /\ ~TruthyStr(o.tool)
    /\ ~TruthyBool(o.forceWebSearch)

\* MayFallback without the test of line 181
MayFallbackAnyCaller(r, o, result) ==
    /\ r = "initial"
    /\ result.status # 200

\* MayFallback without the test of line 163
MayFallbackOnSuccess(r, o, result) ==
    /\ r = "initial"
    /\ ~TruthyStr(o.tool)
    /\ ~TruthyBool(o.forceWebSearch)

\* lines 163-181: after the first call of the "initial" branch, is the
\* fallback call made?
MayFallback(r, o, result) ==
    /\ r = "initial"
    /\ result.status # 200
    /\ ~TruthyStr(o.tool)
    /\ ~TruthyBool(o.forceWebSearch)

----------------------------------------------------------------------------
(* performQuery: request *)

\* HasApiKey that lets an empty key through
HasApiKeyAlways(k) == TRUE

\* line 203
HasApiKey(k) == k # ""

\* ToolField that tests forceWebSearch before the caller's tool
ToolFieldForceFirst(o) ==
    IF TruthyBool(o.forceWebSearch) THEN "web_search"
    ELSE IF TruthyStr(o.tool) THEN o.tool[1]
    ELSE ""

\* lines 222-234: the tool form field
ToolField(o) ==
    IF TruthyStr(o.tool) THEN o.tool[1]
    ELSE IF TruthyBool(o.forceWebSearch) THEN "web_search"
    ELSE ""

\* line 212
RequestTimeout(o) == TimeoutOrDefault(o)

\* lines 216-238 and 279-289: the request handed to axios
Request(query, o) ==
    [query |-> query, tool |-> ToolField(o), parameters_str |-> "",
     file |-> "", timeout |-> RequestTimeout(o)]

----------------------------------------------------------------------------
(* performQuery: response bodies and results *)

\* response.data.response is a string or an object that may carry
\* processed_response
RespString(s) == [kind |-> "string", str |-> s, processed_response |-> Undefined]
RespObject(p) == [kind |-> "object", str |-> "", processed_response |-> p]

\* an empty body ('' is falsy)
EmptyBody ==
    [kind |-> "empty", response |-> Undefined, error |-> Undefined,
     detail |-> Undefined]

JsonBody(r, e, d) ==
    [kind |-> "object", response |-> r, error |-> e, detail |-> d]

AnswerBody == JsonBody(Some(RespString("answer")), Undefined, Undefined)
ProcessedBody ==
    JsonBody(Some(RespObject(Some("processed"))), Undefined, Undefined)
\* processed_response is there, and empty
ProcessedEmptyBody ==
    JsonBody(Some(RespObject(Some(""))), Undefined, Undefined)
ErrorBody == JsonBody(Undefined, Some("backend error"), Undefined)
DetailBody == JsonBody(Undefined, Undefined, Some("DexScreenerResponse"))
\* a detail without the marker
OtherDetailBody == JsonBody(Undefined, Undefined, Some("Server Error"))

\* the bodies the server answers with
Bodies ==
    { EmptyBody, AnswerBody, ProcessedBody, ProcessedEmptyBody, DetailBody,
      OtherDetailBody }

Statuses == {200, 400, 500}

\* truthiness of response.data and of a response value
TruthyBody(b) == b.kind # "empty"
TruthyResp(r) ==
    r # Undefined /\ (r[1].kind = "object" \/ r[1].str # "")

\* `Error ${response.status}`
ErrorStatus(s) == "Error " \o ToString(s)

\* line 328: response.data.response?.processed_response
\*           || response.data.response || response.data
Payload(b) ==
    IF b.response # Undefined /\ b.response[1].kind = "object"
       /\ TruthyStr(b.response[1].processed_response)
    THEN [kind |-> "string", str |-> b.response[1].processed_response[1]]
    ELSE IF TruthyResp(b.response)
    THEN b.response[1]
    ELSE b

\* lines 204-208
MissingKeyResult ==
    [status |-> 401, response |-> Undefined,
     error |-> Some("Missing API key"), raw |-> Undefined]

\* ResponseResult that keeps an error message next to the payload
ResponseResultWithBoth(status, body) ==
    [status |-> status,
     response |-> IF status = 200 /\ TruthyBody(body)
                  THEN Some(Payload(body)) ELSE Undefined,
     error |-> IF TruthyStr(body.error) THEN body.error
               ELSE Some(ErrorStatus(status)),
     raw |-> Some(body)]

\* lines 318-355: the result built from a received response
ResponseResult(status, body) ==
    IF status = 200 /\ TruthyBody(body)
    THEN [status |-> status, response |-> Some(Payload(body)),
          error |-> Undefined, raw |-> Some(body)]
    ELSE [status |-> status, response |-> Undefined,
          error |-> IF TruthyStr(body.error) THEN body.error
                    ELSE Some(ErrorStatus(status)),
          raw |-> Some(body)]

\* ErrorResult without the branch of lines 370-377
ErrorResultWithoutRequestBranch(e) ==
    IF e.kind = "errResponse"
    THEN [status |-> e.status, response |-> Undefined,
          error |-> IF TruthyStr(e.body.error) THEN e.body.error
                    ELSE Some(e.message),
          raw |-> Some(e.body)]
    ELSE [status |-> 500, response |-> Undefined,
          error |-> Some(e.message), raw |-> Undefined]

\* lines 356-385: the result built from a thrown error
ErrorResult(e) ==
    IF e.kind = "errResponse"
    THEN [status |-> e.status, response |-> Undefined,
          error |-> IF TruthyStr(e.body.error) THEN e.body.error
                    ELSE Some(e.message),
          raw |-> Some(e.body)]
    ELSE IF e.kind = "errRequest"
    THEN [status |-> 0, response |-> Undefined,
          error |-> Some("No response received from server"),
          raw |-> Undefined]
    ELSE [status |-> 500, response |-> Undefined,
          error |-> Some(e.message), raw |-> Undefined]

\* What the transport can do with a request: answer with any status
\* (validateStatus accepts them all), or throw.
Outcomes ==
    [kind : {"response"}, status : Statuses, body : Bodies, message : {""}]
    \cup [kind : {"errResponse"}, status : {500},
          body : {ErrorBody}, message : {"bad response"}]
    \cup [kind : {"errRequest"}, status : {0}, body : {EmptyBody},
          message : {"timeout of 30000ms exceeded"}]
    \cup [kind : {"errSetup"}, status : {0}, body : {EmptyBody},
          message : {"Invalid URL"}]

\* Caught when only an error that carries a response is handled
CaughtWithResponse(outcome) == outcome.kind = "errResponse"

\* lines 202 and 356: the request is made inside the try block, so
\* whatever it throws reaches the catch clause
Caught(outcome) == TRUE

\* lines 279-385: the result performQuery resolves with
ResultOf(outcome) ==
    IF outcome.kind = "response"
    THEN ResponseResult(outcome.status, outcome.body)
    ELSE ErrorResult(outcome)

\* line 94: options.apiKey || STATE_OF_MIKA_API_KEY || ''
ConstructorApiKey(optKey, envKey) ==
    IF TruthyStr(optKey) THEN optKey[1]
    ELSE IF TruthyStr(envKey) THEN envKey[1]
    ELSE ""

----------------------------------------------------------------------------
(* The life simulator client: configuration, cache key, cache *)

\* 5 * 60 * 1000 (part_001 line 495)
DefaultCacheDuration == 300000

\* the options a client is constructed with
LifeOptions == [cacheDuration : {Undefined, Some(0), Some(1)}]

\* line 495: options.cacheDuration || 5 * 60 * 1000
ConstructorCacheDuration(o) ==
    IF TruthyNum(o.cacheDuration) THEN o.cacheDuration[1]
    ELSE DefaultCacheDuration

\* the config objects the callers hold
ConfigIds == {1, 2}

ConfigValues ==
    [name : {"mika"}, residence : {"home"},
     current_time : {Undefined, Some("t0")}]

\* one caller leaves current_time out, the other sets it
InitialConfigs ==
    { cs \in [ConfigIds -> ConfigValues] :
        /\ cs[1].current_time = Undefined
        /\ cs[2].current_time # Undefined }

\* new Date().toISOString()
IsoTime(t) == "t" \o ToString(t)

\* `${config.current_time}`
TimeText(ct) == IF ct = Undefined THEN "undefined" ELSE ct[1]

\* GetCacheKey that also reads the occupation
GetCacheKeyWithOccupation(config) ==
    config.name \o "_" \o config.residence \o "_"
        \o TimeText(config.current_time) \o "_" \o config.occupation

\* lines 561-563
GetCacheKey(config) ==
    config.name \o "_" \o config.residence \o "_"
        \o TimeText(config.current_time)

\* the Map: a function from the stored keys
EmptyCache == [k \in {} |-> [data |-> "", timestamp |-> 0]]

\* this.cache.get(key): the entry, or undefined
CacheGet(c, key) == IF key \in DOMAIN c THEN Some(c[key]) ELSE Undefined

\* CacheSet that drops the entries older than the one it stores
CacheSetEvictingOlder(c, key, data, t) ==
    [k \in {j \in DOMAIN c : c[j].timestamp >= t} \cup {key} |->
        IF k = key THEN [data |-> data, timestamp |-> t] ELSE c[k]]

\* CacheSet that keeps the entry a key already has
CacheSetKeepingFirst(c, key, data, t) ==
    [k \in DOMAIN c \cup {key} |->
        IF k \in DOMAIN c THEN c[k] ELSE [data |-> data, timestamp |-> t]]

\* this.cache.set(key, {data, timestamp})
CacheSet(c, key, data, t) ==
    [k \in DOMAIN c \cup {key} |->
        IF k = key THEN [data |-> data, timestamp |-> t] ELSE c[k]]

\* lines 570-572
IsCacheValid(entry, t, duration) == (t - entry.timestamp) < duration

\* UseCache that looks the entry up on a forced refresh too
UseCacheWhenForced(forceRefresh, c, key, t, duration) ==
    /\ CacheGet(c, key) # Undefined
    /\ IsCacheValid(CacheGet(c, key)[1], t, duration)

\* lines 588-593: is the stored entry returned?
UseCache(forceRefresh, c, key, t, duration) ==
    /\ ~forceRefresh
    /\ CacheGet(c, key) # Undefined
    /\ IsCacheValid(CacheGet(c, key)[1], t, duration)

\* lines 524-527: fetchSimulation fills in the caller's current_time
WithCurrentTime(config, t) ==
    IF TruthyStr(config.current_time) THEN config
    ELSE [config EXCEPT !.current_time = Some(IsoTime(t))]

\* line 492: the base URL, whatever the options say
LifeApiBaseUrl == "https://state.gmika.io"

\* lines 529-533: axios.post(`${this.apiBaseUrl}/simulate`, config,
\* { headers }): the request configuration names no timeout
FetchRequest(base, config) ==
    [url |-> base \o "/simulate", data |-> config, timeout |-> Undefined]

\* what axios.post can do: answer 2xx, answer with an error status, or
\* fail without a response
FetchOutcomes == {"ok", "errResponse", "errNetwork"}

\* the bodies the simulation endpoint answers with
Activities == {"sleeping", "working"}

\* the callers that use the client concurrently
Callers == {"agent", "plugin"}

\* a caller that has no invocation under way
NoInvocation ==
    [pc |-> "idle", cfg |-> 0, force |-> FALSE, key |-> "",
     hit |-> FALSE, afterClear |-> FALSE,
     after |-> {}, during |-> {}, attempts |-> 0, data |-> "",
     error |-> 0, latest |-> FALSE]

\* lines 536-553: the status of the SimulatorError thrown
FetchErrorStatus(outcome) == IF outcome = "errResponse" THEN 503 ELSE 500

\* CacheAfterFetch that drops the key's entry when the fetch fails
CacheAfterFetchDropping(c, key, outcome, data, t) ==
    IF outcome = "ok" THEN CacheSet(c, key, data, t)
    ELSE [k \in DOMAIN c \ {key} |-> c[k]]

\* lines 595-605: the cache once the fetch has settled
CacheAfterFetch(c, key, outcome, data, t) ==
    IF outcome = "ok" THEN CacheSet(c, key, data, t) ELSE c

\* ClearedCache that leaves the entries in place
ClearedCacheKeeping(c) == c

\* lines 611-614: this.cache.clear()
ClearedCache(c) == EmptyCache

\* the client is constructed and never used
LifeUnused ==
    /\ lifeOptions = [cacheDuration |-> Undefined]
    /\ cacheDuration = ConstructorCacheDuration(lifeOptions)
    /\ cache = EmptyCache
    /\ configs = [c \in ConfigIds |->
                    [name |-> "mika", residence |-> "home",
                     current_time |-> Undefined]]
    /\ invs = [p \in Callers |-> NoInvocation]
    /\ lastClear = "none"
    /\ now = 0

\* none of the side-effect-free methods has been called
NoProbe == [fn |-> "none", input |-> <<>>, output |-> <<>>]
ProbeUnused == probe = NoProbe

\* the query client is constructed and never used
QueryUnused ==
    /\ apiKey = ""
    /\ pc = "idle"
    /\ route = "none"
    /\ text = <<>>
    /\ options = NoOptions
    /\ pending = NoOptions
    /\ perfOpts = <<>>
    /\ perfResults = <<>>
    /\ calls = <<>>
    /\ received = <<>>
    /\ ret = Undefined
    /\ log = <<>>
    /\ sessionId = Undefined
    /\ clock = 0

----------------------------------------------------------------------------
(* The MongoDB connection module *)

\* the callers of getMongoClient and closeMongoConnection
MongoCallers == {"save", "history"}

\* a caller with no call under way
NoMongoCall == [pc |-> "idle", target |-> 0, result |-> 0, state |-> "none"]

\* line 16: !client
NoClient(c) == c = 0

\* the state of the object a call resolved with ("null" for null)
StateOf(objects, c) == IF NoClient(c) THEN "null" ELSE objects[c]

\* what client.connect() leaves the object in
Connected(objects, c, ok) ==
    IF objects[c] # "connecting" THEN objects
    ELSE [objects EXCEPT ![c] = IF ok THEN "connected" ELSE "failed"]

\* line 10: let client = null, and nothing called yet
MongoUnused ==
    /\ client = 0
    /\ mongoClients = <<>>
    /\ mongoCalls = [u \in MongoCallers |-> NoMongoCall]

----------------------------------------------------------------------------
(* The agent table *)

\* getAuthUserId(ctx): null, or the id of the signed-in user
Identities == {Undefined, Some("alice"), Some("bob")}

Titles == {"draft", "final"}

\* the updates argument of updateAgent
AgentUpdates == [title : {Undefined} \cup {Some(t) : t \in Titles}]

\* no mutation has run
NoAgentCall ==
    [fn |-> "none", caller |-> Undefined, agentId |-> 0, threw |-> FALSE]

\* ctx.db.get(agentId): the document, or null
DbGet(table, id) == IF id \in DOMAIN table THEN Some(table[id]) ELSE Undefined

\* ctx.db.insert("agent", doc) under the next id
DbInsert(table, id, doc) ==
    [k \in DOMAIN table \cup {id} |-> IF k = id THEN doc ELSE table[k]]

\* ctx.db.patch(agentId, updates): the fields given replace the stored ones
DbPatch(table, id, updates) ==
    [table EXCEPT ![id].title =
        IF updates.title = Undefined THEN @ ELSE updates.title[1]]

\* ctx.db.delete(agentId)
DbDelete(table, id) == [k \in DOMAIN table \ {id} |-> table[k]]

\* lines 40, 71, 86: !authUserId
NotAuthenticated(authUserId) == ~TruthyStr(authUserId)

\* NotAuthorized that only asks for the document to exist
NotAuthorizedIgnoringOwner(existingAgent, authUserId) ==
    existingAgent = Undefined

\* lines 74 and 89: !existingAgent || existingAgent.authUserId !== authUserId
NotAuthorized(existingAgent, authUserId) ==
    \/ existingAgent = Undefined
    \/ existingAgent[1].authUserId # authUserId[1]

\* the table is empty and no mutation has run
AgentsUnused ==
    /\ agents = << >>
    /\ inserted = 0
    /\ agentCall = NoAgentCall

----------------------------------------------------------------------------
(* Log lines *)

\* One entry stands for the logger calls of one block of the source that
\* share a level and a session identifier; `at` is the line of the first.
LogLine(at, level, sid) == [at |-> at, level |-> level, sid |-> sid]

\* line 147: the line query() logs on entry
EntryLines(r) ==
    IF r = "bitcoin" THEN <<LogLine(147, "info", Undefined)>> ELSE <<>>

\* lines 173-177: the line query() logs once its first call has failed
AfterFirstLines(r, result) ==
    IF r = "initial" /\ result.status # 200
    THEN <<LogLine(IF IsDexScreenerError(result) THEN 174 ELSE 176,
                   "info", Undefined)>>
    ELSE <<>>

\* line 204
MissingKeyLines == <<LogLine(204, "error", Undefined)>>

\* the moments Date.now() can return
Instants == clock..MaxClock

\* `req-${Date.now()}` and `err-${Date.now()}`
GeneratedId(prefix, t) == prefix \o "-" \o ToString(t)

\* lines 211 and 357: options.sessionId || `<prefix>-${Date.now()}`
SessionId(o, prefix, t) ==
    IF TruthyStr(o.sessionId) THEN o.sessionId[1] ELSE GeneratedId(prefix, t)

\* Date.now() is read only when the caller gave no sessionId
ReadInstants(o) == IF TruthyStr(o.sessionId) THEN {clock} ELSE Instants

\* lines 222-268: the lines logged before the request is made
RequestLines(o, sid) ==
    << LogLine(IF TruthyStr(o.tool) THEN 225
               ELSE IF TruthyBool(o.forceWebSearch) THEN 229 ELSE 233,
               "info", Some(sid)),
       LogLine(243, "debug", Some(sid)),
       LogLine(260, "info", Some(sid)) >>

\* lines 292-354: the lines logged once a response has arrived
ResponseLines(status, body, sid) ==
    << LogLine(292, "info", Some(sid)), LogLine(306, "debug", Some(sid)) >>
    \o (IF status = 200 /\ TruthyBody(body)
        THEN << LogLine(319, "info", Some(sid)),
                LogLine(326, "debug", Some(sid)) >>
        ELSE << LogLine(334, "error", Some(sid)) >>
             \o (IF status = 500
                 THEN << LogLine(337, "error", Some(sid)) >>
                 ELSE IF status = 400
                 THEN << LogLine(343, "error", Some(sid)) >>
                 ELSE <<>>))

\* lines 357-372: the lines logged by the catch clause
CatchLines(e, sid) ==
    << LogLine(358, "error", Some(sid)) >>
    \o (IF e.kind = "errResponse"
        THEN << LogLine(363, "error", Some(sid)) >>
        ELSE IF e.kind = "errRequest"
        THEN << LogLine(372, "error", Some(sid)) >>
        ELSE <<>>)

----------------------------------------------------------------------------
(* The state machine of the query client *)

Init ==
    /\ apiKey \in { ConstructorApiKey(o, e) :
                      o \in {Undefined, Some(""), Some("sk-mika")},
                      e \in {Undefined, Some("sk-mika")} }
    /\ pc = "idle"
    /\ route = "none"
    /\ text = <<>>
    /\ options = NoOptions
    /\ pending = NoOptions
    /\ perfOpts = <<>>
    /\ perfResults = <<>>
    /\ calls = <<>>
    /\ received = <<>>
    /\ ret = Undefined
    /\ log = <<>>
    /\ sessionId = Undefined
    /\ clock = 0
    /\ LifeUnused
    /\ ProbeUnused
    /\ MongoUnused
    /\ AgentsUnused

\* query(): entry, up to the first performQuery call (lines 135-160)
Query(q, o) ==
    /\ pc = "idle"
    /\ text' = q
    /\ options' = o
    /\ route' = Route(q, o)
    /\ pending' = FirstOptions(Route(q, o), o)
    /\ log' = EntryLines(Route(q, o))
    /\ pc' = "perform"
    /\ UNCHANGED <<apiKey, perfOpts, perfResults, calls, received, ret,
                   sessionId, clock>>
    /\ UNCHANGED otherThanQuery

\* query(): what it does once a performQuery call has resolved with
\* result: return it, or make the fallback call (lines 138, 148, 162-192)
Resume(result) ==
    IF MayFallback(route, options, result)
    THEN /\ route' = "fallback"
         /\ pending' = FallbackOptions(options)
         /\ pc' = "perform"
         /\ UNCHANGED ret
    ELSE /\ ret' = Some(result)
         /\ pc' = "done"
         /\ UNCHANGED <<route, pending>>

\* performQuery(): the synchronous part, up to the await (lines 201-289);
\* without a key it resolves at once and query() goes on
PerformQuery ==
    /\ pc = "perform"
    /\ perfOpts' = Append(perfOpts, pending)
    /\ IF ~HasApiKey(apiKey)
       THEN /\ perfResults' = Append(perfResults, MissingKeyResult)
            /\ log' = log \o MissingKeyLines
                          \o AfterFirstLines(route, MissingKeyResult)
            /\ Resume(MissingKeyResult)
            /\ UNCHANGED <<calls, sessionId, clock>>
       ELSE /\ \E t \in ReadInstants(pending) :
                  /\ clock' = t
                  /\ sessionId' = Some(SessionId(pending, "req", t))
                  /\ log' = log \o RequestLines(pending,
                                                SessionId(pending, "req", t))
            /\ calls' = Append(calls, Request(text, pending))
            /\ pc' = "await"
            /\ UNCHANGED <<perfResults, route, pending, ret>>
    /\ UNCHANGED <<apiKey, text, options, received>>
    /\ UNCHANGED otherThanQuery

\* performQuery(): the transport settles the request, the result is built
\* (lines 279-385) and query() goes on
Respond(outcome) ==
    /\ pc = "await"
    /\ received' = Append(received, outcome)
    /\ sessionId' = Undefined
    /\ IF outcome.kind = "response"
       THEN /\ perfResults' = Append(perfResults, ResultOf(outcome))
            /\ log' = log \o ResponseLines(outcome.status, outcome.body,
                                           sessionId[1])
                          \o AfterFirstLines(route, ResultOf(outcome))
            /\ Resume(ResultOf(outcome))
            /\ UNCHANGED clock
       ELSE IF Caught(outcome)
       THEN /\ perfResults' = Append(perfResults, ResultOf(outcome))
            /\ \E t \in ReadInstants(pending) :
                  /\ clock' = t
                  /\ log' = log \o CatchLines(outcome,
                                              SessionId(pending, "err", t))
                                \o AfterFirstLines(route, ResultOf(outcome))
            /\ Resume(ResultOf(outcome))
       ELSE /\ pc' = "thrown"
            /\ UNCHANGED <<perfResults, route, pending, ret, log, clock>>
    /\ UNCHANGED <<apiKey, text, options, perfOpts, calls>>
    /\ UNCHANGED otherThanQuery

\* the caller has taken the result; the client is ready for the next query
Return ==
    /\ pc \in {"done", "thrown"}
    /\ pc' = "idle"
    /\ route' = "none"
    /\ text' = <<>>
    /\ options' = NoOptions
    /\ pending' = NoOptions
    /\ perfOpts' = <<>>
    /\ perfResults' = <<>>
    /\ calls' = <<>>
    /\ received' = <<>>
    /\ ret' = Undefined
    /\ log' = <<>>
    /\ sessionId' = Undefined
    /\ clock' = 0
    /\ UNCHANGED apiKey
    /\ UNCHANGED otherThanQuery

Next ==
    \/ pc = "idle" /\ \E q \in Texts, o \in QueryOptions : Query(q, o)
    \/ PerformQuery
    \/ pc = "await" /\ \E outcome \in Outcomes : Respond(outcome)
    \/ Return

Spec == Init /\ [][Next]_vars

----------------------------------------------------------------------------
(* The state machine of the life simulator client *)

InitLife ==
    /\ QueryUnused
    /\ ProbeUnused
    /\ MongoUnused
    /\ AgentsUnused
    /\ lifeOptions \in LifeOptions
    /\ cacheDuration = ConstructorCacheDuration(lifeOptions)
    /\ cache = EmptyCache
    /\ configs \in InitialConfigs
    /\ invs = [p \in Callers |-> NoInvocation]
    /\ lastClear = "none"
    /\ now = 0

\* getLifeSimulation(config, forceRefresh) called by p, up to its return on
\* a hit or to the await of axios.post on a miss (lines 580-596, 513-533)
GetLifeSimulation(p, c, forceRefresh) ==
    LET key == GetCacheKey(configs[c])
        hit == UseCache(forceRefresh, cache, key, now, cacheDuration)
        inv == [pc |-> IF hit THEN "done" ELSE "fetching",
                cfg |-> c, force |-> forceRefresh, key |-> key,
                hit |-> hit,
                afterClear |-> lastClear # "none",
                after |-> {q \in Callers : invs[q].latest},
                during |-> {q \in Callers : invs[q].pc = "fetching"},
                attempts |-> IF hit THEN 0 ELSE 1,
                data |-> IF hit THEN cache[key].data ELSE "",
                error |-> 0, latest |-> FALSE]
    IN  /\ invs[p].pc = "idle"
        /\ invs' = [invs EXCEPT ![p] = inv]
        /\ configs' =
               IF hit THEN configs
               ELSE [configs EXCEPT ![c] = WithCurrentTime(configs[c], now)]
        /\ UNCHANGED <<lifeOptions, cacheDuration, cache, lastClear, now>>
        /\ UNCHANGED otherThanLife

\* the request of p's invocation settles: fetchSimulation returns the data
\* or throws, getLifeSimulation stores and returns or lets the error through
\* (lines 535-553 and 596-605)
Settle(p, outcome, data) ==
    /\ invs[p].pc = "fetching"
    /\ cache' = CacheAfterFetch(cache, invs[p].key, outcome, data, now)
    /\ IF outcome = "ok"
       THEN /\ invs' = [q \in Callers |->
                          IF q = p
                          THEN [invs[p] EXCEPT !.pc = "done", !.data = data,
                                               !.latest = TRUE]
                          ELSE [invs[q] EXCEPT !.latest = FALSE]]
            /\ lastClear' = "none"
       ELSE /\ invs' = [invs EXCEPT ![p].pc = "failed",
                                    ![p].error = FetchErrorStatus(outcome)]
            /\ UNCHANGED lastClear
    /\ UNCHANGED <<lifeOptions, cacheDuration, configs, now>>
    /\ UNCHANGED otherThanLife

\* p's caller has taken the result or the error
ReturnLife(p) ==
    /\ invs[p].pc \in {"done", "failed"}
    /\ invs' = [q \in Callers |->
                   IF q = p
                   THEN NoInvocation
                   ELSE [invs[q] EXCEPT !.after = @ \ {p},
                                        !.during = @ \ {p}]]
    /\ UNCHANGED <<lifeOptions, cacheDuration, cache, configs, lastClear,
                   now>>
    /\ UNCHANGED otherThanLife

\* clearCache() (lines 611-614)
ClearCache ==
    /\ cache' = ClearedCache(cache)
    /\ lastClear' = "clearCache"
    /\ invs' = [q \in Callers |-> [invs[q] EXCEPT !.latest = FALSE]]
    /\ UNCHANGED <<lifeOptions, cacheDuration, configs, now>>
    /\ UNCHANGED otherThanLife

\* LifeSimulatorPlugin.onDisable() (lines 983-986): this.client.clearCache()
OnDisable ==
    /\ cache' = ClearedCache(cache)
    /\ lastClear' = "onDisable"
    /\ invs' = [q \in Callers |-> [invs[q] EXCEPT !.latest = FALSE]]
    /\ UNCHANGED <<lifeOptions, cacheDuration, configs, now>>
    /\ UNCHANGED otherThanLife

\* time passes
Tick ==
    /\ now < MaxTime
    /\ now' = now + 1
    /\ UNCHANGED <<lifeOptions, cacheDuration, cache, configs, invs,
                   lastClear>>
    /\ UNCHANGED otherThanLife

NextLife ==
    \/ \E p \in Callers, c \in ConfigIds, f \in BOOLEAN :
          GetLifeSimulation(p, c, f)
    \/ \E p \in Callers, o \in FetchOutcomes, d \in Activities :
          Settle(p, o, d)
    \/ \E p \in Callers : ReturnLife(p)
    \/ ClearCache
    \/ OnDisable
    \/ Tick

SpecLife == InitLife /\ [][NextLife]_vars

----------------------------------------------------------------------------
(* Methods without side effects on the clients, called on their own *)

\* the options a life simulator client is constructed with
BaseUrlOptions == [apiBaseUrl : {Undefined, Some("http://localhost:8000")}]

\* lines 491-492: the base URL the constructor keeps
ConstructorApiBaseUrl(o) == LifeApiBaseUrl

\* the URL the client's simulation requests go to (line 530)
SimulateUrl(o, config) == FetchRequest(ConstructorApiBaseUrl(o), config).url

\* configs with the fields that take no part in the key; names may
\* contain the separator, and current_time is any string or absent
FullConfigs ==
    [name : {"mika", "mika_home"}, residence : {"home", "home_home"},
     current_time : {Undefined, Some("t0"), Some("undefined")},
     office : {"hq", "lab"}, occupation : {"dev", "chef"}]

\* Partial<SimulationConfig>: any field may be missing
PartialConfigs ==
    [name : {"mika"},
     residence : {Undefined, Some("home")},
     office : {Undefined, Some("hq")},
     occupation : {Undefined, Some(""), Some("dev")},
     current_time : {Undefined, Some("t0")},
     available_locations : {Undefined}]

\* this.defaultConfig (line 494)
DefaultConfigs ==
    { [timezone |-> Undefined, occupation |-> Undefined],
      [timezone |-> Some("UTC"), occupation |-> Some("clerk")] }

\* line 621
LacksRequired(partial) ==
    \/ partial.residence = Undefined
    \/ partial.office = Undefined
    \/ ~TruthyStr(partial.occupation)

\* lines 619-643: mergeWithDefaultConfig throws, or returns the merge
MergeWithDefaultConfig(defaults, partial, t) ==
    IF LacksRequired(partial)
    THEN [threw |-> TRUE, config |-> Undefined]
    ELSE [threw |-> FALSE,
          config |->
             Some([name |-> partial.name,
                   residence |-> partial.residence,
                   office |-> partial.office,
                   occupation |-> partial.occupation,
                   timezone |-> defaults.timezone,
                   available_locations |->
                       Some({partial.residence[1], partial.office[1]}),
                   current_time |->
                       IF TruthyStr(partial.current_time)
                       THEN partial.current_time
                       ELSE Some(IsoTime(t))])]

\* lines 580-597 and 561-563 on a client whose cache is empty: reading
\* config.residence.name fails when there is no residence; otherwise the
\* lookup misses and the request is sent
StartOfGetLifeSimulation(partial) ==
    IF partial.residence = Undefined
    THEN [kind |-> "rejected", requests |-> 0]
    ELSE [kind |-> "suspended", requests |-> 1]

InitPure ==
    /\ QueryUnused
    /\ LifeUnused
    /\ ProbeUnused
    /\ MongoUnused
    /\ AgentsUnused

CallDetectRelevance(q) ==
    /\ ProbeUnused
    /\ probe' = [fn |-> "detectRelevance", input |-> q,
                 output |-> DetectRelevance(q)]
    /\ UNCHANGED otherThanProbe

CallGetCacheKey(c1, c2) ==
    /\ ProbeUnused
    /\ probe' = [fn |-> "getCacheKey", input |-> <<c1, c2>>,
                 output |-> <<GetCacheKey(c1), GetCacheKey(c2)>>]
    /\ UNCHANGED otherThanProbe

CallConstructor(o, c) ==
    /\ ProbeUnused
    /\ probe' = [fn |-> "constructor", input |-> o,
                 output |-> SimulateUrl(o, c)]
    /\ UNCHANGED otherThanProbe

CallMergeWithDefaultConfig(d, c) ==
    /\ ProbeUnused
    /\ probe' = [fn |-> "mergeWithDefaultConfig", input |-> <<d, c>>,
                 output |-> MergeWithDefaultConfig(d, c, now)]
    /\ UNCHANGED otherThanProbe

CallGetLifeSimulation(c) ==
    /\ ProbeUnused
    /\ probe' = [fn |-> "getLifeSimulation", input |-> c,
                 output |-> StartOfGetLifeSimulation(c)]
    /\ UNCHANGED otherThanProbe

\* the caller takes the value; the next call starts from the same client
ReturnPure ==
    /\ ~ProbeUnused
    /\ probe' = NoProbe
    /\ UNCHANGED otherThanProbe

NextPure ==
    \/ \E q \in RelevanceTexts : CallDetectRelevance(q)
    \/ \E c1, c2 \in FullConfigs : CallGetCacheKey(c1, c2)
    \/ \E o \in BaseUrlOptions, c \in ConfigValues : CallConstructor(o, c)
    \/ \E d \in DefaultConfigs, c \in PartialConfigs :
          CallMergeWithDefaultConfig(d, c)
    \/ \E c \in PartialConfigs : CallGetLifeSimulation(c)
    \/ ReturnPure

SpecPure == InitPure /\ [][NextPure]_vars

----------------------------------------------------------------------------
(* The MongoDB connection module: getMongoClient, closeMongoConnection *)

InitMongo ==
    /\ QueryUnused
    /\ LifeUnused
    /\ ProbeUnused
    /\ MongoUnused
    /\ AgentsUnused

\* getMongoClient() called by u (lines 15-20): with no client it creates
\* one, keeps it in the module variable and waits for connect(); with a
\* client it returns what the variable holds
GetMongoClient(u) ==
    /\ mongoCalls[u].pc = "idle"
    /\ IF NoClient(client)
       THEN /\ Len(mongoClients) < MaxClients
            /\ mongoClients' = Append(mongoClients, "connecting")
            /\ client' = Len(mongoClients) + 1
            /\ mongoCalls' =
                  [mongoCalls EXCEPT ![u] =
                      [pc |-> "connecting", target |-> Len(mongoClients) + 1,
                       result |-> 0, state |-> "none"]]
       ELSE /\ mongoCalls' =
                  [mongoCalls EXCEPT ![u] =
                      [pc |-> "resolved", target |-> 0, result |-> client,
                       state |-> StateOf(mongoClients, client)]]
            /\ UNCHANGED <<client, mongoClients>>
    /\ UNCHANGED otherThanMongo

\* the connect() that u's getMongoClient waits for settles (lines 18-20):
\* the call returns what the module variable holds now, or rejects
ConnectSettles(u, ok) ==
    /\ mongoCalls[u].pc = "connecting"
    /\ mongoClients' = Connected(mongoClients, mongoCalls[u].target, ok)
    /\ mongoCalls' =
          [mongoCalls EXCEPT ![u] =
              IF ok
              THEN [pc |-> "resolved", target |-> 0, result |-> client,
                    state |-> StateOf(mongoClients', client)]
              ELSE [pc |-> "rejected", target |-> 0, result |-> 0,
                    state |-> "none"]]
    /\ UNCHANGED client
    /\ UNCHANGED otherThanMongo

\* closeMongoConnection() called by u (lines 85-87): with a client it
\* waits for close(), without one it returns
CloseMongoConnection(u) ==
    /\ mongoCalls[u].pc = "idle"
    /\ mongoCalls' =
          [mongoCalls EXCEPT ![u] =
              IF NoClient(client)
              THEN [NoMongoCall EXCEPT !.pc = "closed"]
              ELSE [NoMongoCall EXCEPT !.pc = "closing", !.target = client]]
    /\ UNCHANGED <<client, mongoClients>>
    /\ UNCHANGED otherThanMongo

\* the close() that u's closeMongoConnection waits for is done (lines 87-89)
CloseSettles(u) ==
    /\ mongoCalls[u].pc = "closing"
    /\ mongoClients' = [mongoClients EXCEPT ![mongoCalls[u].target] = "closed"]
    /\ client' = 0
    /\ mongoCalls' = [mongoCalls EXCEPT ![u] =
                         [NoMongoCall EXCEPT !.pc = "closed"]]
    /\ UNCHANGED otherThanMongo

\* u's caller has taken the client or the error
ReturnMongo(u) ==
    /\ mongoCalls[u].pc \in {"resolved", "rejected", "closed"}
    /\ mongoCalls' = [mongoCalls EXCEPT ![u] = NoMongoCall]
    /\ UNCHANGED <<client, mongoClients>>
    /\ UNCHANGED otherThanMongo

NextMongo ==
    \/ \E u \in MongoCallers : GetMongoClient(u)
    \/ \E u \in MongoCallers, ok \in BOOLEAN : ConnectSettles(u, ok)
    \/ \E u \in MongoCallers : CloseMongoConnection(u)
    \/ \E u \in MongoCallers : CloseSettles(u)
    \/ \E u \in MongoCallers : ReturnMongo(u)

SpecMongo == InitMongo /\ [][NextMongo]_vars

----------------------------------------------------------------------------
(* The agent mutations: createAgent, updateAgent, deleteAgent *)

InitAgents ==
    /\ QueryUnused
    /\ LifeUnused
    /\ ProbeUnused
    /\ MongoUnused
    /\ AgentsUnused

\* createAgent (lines 27-53)
CreateAgent(caller, title) ==
    /\ IF NotAuthenticated(caller)
       THEN /\ agentCall' = [fn |-> "createAgent", caller |-> caller,
                             agentId |-> 0, threw |-> TRUE]
            /\ UNCHANGED <<agents, inserted>>
       ELSE /\ inserted < MaxAgents
            /\ agents' = DbInsert(agents, inserted + 1,
                                  [authUserId |-> caller[1], title |-> title])
            /\ inserted' = inserted + 1
            /\ agentCall' = [fn |-> "createAgent", caller |-> caller,
                             agentId |-> inserted + 1, threw |-> FALSE]
    /\ UNCHANGED otherThanAgents

\* updateAgent (lines 55-81)
UpdateAgent(caller, agentId, updates) ==
    /\ IF \/ NotAuthenticated(caller)
          \/ NotAuthorized(DbGet(agents, agentId), caller)
       THEN /\ agentCall' = [fn |-> "updateAgent", caller |-> caller,
                             agentId |-> agentId, threw |-> TRUE]
            /\ UNCHANGED agents
       ELSE /\ agents' = DbPatch(agents, agentId, updates)
            /\ agentCall' = [fn |-> "updateAgent", caller |-> caller,
                             agentId |-> agentId, threw |-> FALSE]
    /\ UNCHANGED inserted
    /\ UNCHANGED otherThanAgents

\* deleteAgent (lines 83-96)
DeleteAgent(caller, agentId) ==
    /\ IF \/ NotAuthenticated(caller)
          \/ NotAuthorized(DbGet(agents, agentId), caller)
       THEN /\ agentCall' = [fn |-> "deleteAgent", caller |-> caller,
                             agentId |-> agentId, threw |-> TRUE]
            /\ UNCHANGED agents
       ELSE /\ agents' = DbDelete(agents, agentId)
            /\ agentCall' = [fn |-> "deleteAgent", caller |-> caller,
                             agentId |-> agentId, threw |-> FALSE]
    /\ UNCHANGED inserted
    /\ UNCHANGED otherThanAgents

NextAgents ==
    \/ \E a \in Identities, t \in Titles : CreateAgent(a, t)
    \/ \E a \in Identities, i \in 1..MaxAgents, u \in AgentUpdates :
          UpdateAgent(a, i, u)
    \/ \E a \in Identities, i \in 1..MaxAgents : DeleteAgent(a, i)

SpecAgents == InitAgents /\ [][NextAgents]_vars

----------------------------------------------------------------------------
(* Properties of query() *)

\* the caller's view of the arguments of the invocation under way
Guarded == TruthyBool(options.disableFallback)
CallerTool == TruthyStr(options.tool)
CallerForce == TruthyBool(options.forceWebSearch)

\* a text that names Bitcoin (bitcoin, btc) and a price (price, worth,
\* value), in any letter case
BitcoinPriceText(t) ==
    /\ \E i \in 1..Len(t) : t[i] \in {"Bitcoin", "BTC"}
    /\ \E i \in 1..Len(t) : t[i] \in {"price", "Worth", "Value"}

\* C1: one invocation of query() issues at most two network calls, for
\* every text, every options value and every sequence of transport
\* outcomes.
C1_AtMostTwoCalls == Len(calls) <= 2

C1_Witness == pc = "done" /\ Len(calls) = 2

\* C2: with no credential configured query() issues no network call and
\* resolves with status 401, also when the fallback step runs after the
\* first 401.
C2_NoCredential ==
    apiKey = "" =>
        /\ Len(calls) = 0
        /\ pc = "done" => (ret # Undefined /\ ret[1].status = 401)

C2_Witness == pc = "done" /\ apiKey = "" /\ Len(perfOpts) = 2

\* C3: unguarded, no tool and no forceWebSearch from the caller, not a
\* Bitcoin price text, first network call answered with a non-200 status:
\* exactly two network calls, the first with an empty tool field, the
\* second with tool = web_search, and query() resolves with the second
\* call's result whatever its status.
C3_FallbackAfterFailure ==
    ( /\ pc = "done"
      /\ ~Guarded /\ ~CallerTool /\ ~CallerForce
      /\ ~BitcoinPriceText(text)
      /\ Len(calls) >= 1
      /\ perfResults[1].status # 200 )
    => /\ Len(calls) = 2
       /\ calls[1].tool = ""
       /\ calls[2].tool = "web_search"
       /\ Len(perfResults) = 2
       /\ ret = Some(perfResults[2])

C3_Witness ==
    /\ pc = "done"
    /\ ~Guarded /\ ~CallerTool /\ ~CallerForce
    /\ ~BitcoinPriceText(text)
    /\ Len(calls) = 2
    /\ perfResults[1].status # 200
    /\ perfResults[2].status # 200
    /\ ret = Some(perfResults[2])

\* C4: the caller named a tool or set forceWebSearch and the first network
\* call is answered with a non-200 status: exactly one network call, and
\* query() resolves with exactly that failing result.
C4_NoFallbackForCallerTool ==
    (CallerTool \/ CallerForce) =>
        /\ Len(calls) <= 1
        /\ ( /\ pc = "done"
             /\ Len(calls) >= 1
             /\ perfResults[1].status # 200 )
           => /\ Len(calls) = 1
              /\ Len(perfResults) = 1
              /\ ret = Some(perfResults[1])

C4_Witness ==
    /\ pc = "done"
    /\ route = "initial"
    /\ CallerTool \/ CallerForce
    /\ Len(calls) = 1
    /\ perfResults[1].status # 200
    /\ ret = Some(perfResults[1])

\* C5, as stated: for every Bitcoin price text an unguarded query() issues
\* exactly one network call and no call with an empty tool field.
C5_ExactlyOneCall ==
    (pc = "done" /\ ~Guarded /\ BitcoinPriceText(text)) =>
        /\ Len(calls) = 1
        /\ calls[1].tool # ""

\* C5, amended: for every Bitcoin price text an unguarded query() never
\* issues a call with an empty tool field; it issues exactly one network
\* call when a credential is configured and none when there is none.
C5_OneCallWithCredential ==
    (~Guarded /\ BitcoinPriceText(text)) =>
        /\ \A i \in 1..Len(calls) : calls[i].tool # ""
        /\ Len(calls) <= 1
        /\ pc = "done" => Len(calls) = (IF apiKey = "" THEN 0 ELSE 1)

C5_Witness ==
    /\ pc = "done"
    /\ ~Guarded /\ BitcoinPriceText(text)
    /\ apiKey # ""
    /\ Len(calls) = 1
    /\ perfResults[1].status # 200

\* C6: for a Bitcoin price text the single call of an unguarded query()
\* carries tool = web_search, for every options value of the caller.
C6_ShortcutUsesWebSearch ==
    (~Guarded /\ BitcoinPriceText(text)) =>
        \A i \in 1..Len(calls) : calls[i].tool = "web_search"

\* C7: every call of the Bitcoin shortcut and every fallback (second) call
\* is sent with a timeout of at least 30000 ms, for every timeout the
\* caller passed.
C7_TimeoutFloor ==
    /\ (~Guarded /\ BitcoinPriceText(text)) =>
           \A i \in 1..Len(calls) : calls[i].timeout >= 30000
    /\ Len(calls) >= 2 => calls[2].timeout >= 30000

\* C8: with the guard flag set on entry query() makes exactly one
\* performQuery call, with the options it was given, and resolves with that
\* call's result: no Bitcoin special case, no fallback, for every text and
\* every result status.
C8_GuardedSingleCall ==
    Guarded =>
        /\ Len(perfOpts) <= 1
        /\ Len(calls) <= 1
        /\ pc = "done" =>
              /\ Len(perfOpts) = 1
              /\ perfOpts[1] = options
              /\ Len(perfResults) = 1
              /\ ret = Some(perfResults[1])
              /\ Len(calls) = (IF apiKey = "" THEN 0 ELSE 1)
              /\ \A i \in 1..Len(calls) :
                    /\ (~CallerTool /\ ~CallerForce) => calls[i].tool = ""
                    /\ options.timeout = Some(5000) => calls[i].timeout = 5000

C8_Witness ==
    /\ pc = "done"
    /\ Guarded /\ BitcoinPriceText(text)
    /\ ~CallerTool /\ ~CallerForce
    /\ Len(calls) = 1
    /\ calls[1].tool = ""
    /\ perfResults[1].status # 200
    /\ ret = Some(perfResults[1])

\* C9, as stated: for every unguarded query that is not a Bitcoin price
\* query the first network call has an empty tool field, for every options
\* value of the caller.
C9_FirstCallAutoRouted ==
    (~Guarded /\ ~BitcoinPriceText(text) /\ Len(calls) >= 1) =>
        calls[1].tool = ""

\* C9, amended: for every unguarded query that is not a Bitcoin price query
\* the first network call carries the caller's own tool choice: the empty
\* tool field when the caller gave neither tool nor forceWebSearch, the
\* caller's tool when one is given, web_search when only forceWebSearch is
\* set.
C9_FirstCallKeepsCallerTool ==
    (~Guarded /\ ~BitcoinPriceText(text) /\ Len(calls) >= 1) =>
        /\ (~CallerTool /\ ~CallerForce) => calls[1].tool = ""
        /\ CallerTool => calls[1].tool = options.tool[1]
        /\ (~CallerTool /\ CallerForce) => calls[1].tool = "web_search"

C9_Witness ==
    /\ ~Guarded /\ ~BitcoinPriceText(text)
    /\ ~CallerTool /\ ~CallerForce
    /\ Len(calls) = 1
    /\ calls[1].tool = ""

\* C10: when the first call of an unguarded query that is not a Bitcoin
\* price query resolves with status 200, query() resolves with that result
\* and issues no second call.
C10_SuccessReturnsFirst ==
    ( /\ ~Guarded /\ ~BitcoinPriceText(text)
      /\ Len(perfResults) >= 1
      /\ perfResults[1].status = 200 )
    => /\ Len(calls) = 1
       /\ Len(perfResults) = 1
       /\ pc = "done"
       /\ ret = Some(perfResults[1])

C10_Witness ==
    /\ pc = "done"
    /\ ~Guarded /\ ~BitcoinPriceText(text)
    /\ ~CallerTool /\ ~CallerForce
    /\ Len(calls) = 1
    /\ calls[1].tool = ""
    /\ perfResults[1].status = 200
    /\ ret = Some(perfResults[1])

----------------------------------------------------------------------------
(* Claims about the results of the query client *)

\* the k-th request was settled and performQuery has built its result
Settled(k) == k \in 1..Len(received) /\ k <= Len(perfResults)

\* C17: query() never throws for a remote-call failure: whatever the
\* transport does with a request (any HTTP status, an error with or
\* without a response), performQuery builds a result, query() resolves
\* with a result, and the result's status is the HTTP status whenever a
\* response was received.
C17_NeverThrows ==
    /\ pc # "thrown"
    /\ Len(perfResults) = (IF HasApiKey(apiKey) THEN Len(received) ELSE Len(perfOpts))
    /\ pc = "done" => ret # Undefined
    /\ \A k \in 1..Len(received) :
          received[k].kind \in {"response", "errResponse"}
              => perfResults[k].status = received[k].status

C17_Witness ==
    /\ pc = "done"
    /\ ret # Undefined
    /\ \E k \in 1..Len(received) : received[k].kind = "errRequest"
    /\ \E k \in 1..Len(received) :
          received[k].kind = "response" /\ received[k].status = 400

\* C18: a failure caught inside performQuery is mapped by kind: an error
\* that carries a response gives that response's status and its body as
\* raw; a request sent without a response gives status 0; anything else
\* gives status 500 with the error's message.
C18_CatchMapping ==
    \A k \in 1..Len(received) :
        /\ Settled(k)
        /\ received[k].kind = "errResponse"
              => /\ perfResults[k].status = received[k].status
                 /\ perfResults[k].raw = Some(received[k].body)
        /\ received[k].kind = "errRequest" => perfResults[k].status = 0
        /\ received[k].kind = "errSetup"
              => /\ perfResults[k].status = 500
                 /\ perfResults[k].error = Some(received[k].message)

C18_Witness ==
    /\ Len(received) = 2
    /\ Len(perfResults) = 2
    /\ received[1].kind = "errRequest"
    /\ received[2].kind = "errSetup"
    /\ perfResults[1].status = 0
    /\ perfResults[2].status = 500

\* exactly one of the payload and the error message
OneOfResponseAndError(result) ==
    (result.response # Undefined) # (result.error # Undefined)

\* C19: every result carries exactly one of the payload (response) and
\* the error message, on every path: the 401 short-circuit, success, an
\* HTTP error status, no response, a transport error.
C19_ResponseXorError ==
    /\ \A k \in 1..Len(perfResults) : OneOfResponseAndError(perfResults[k])
    /\ ret # Undefined => OneOfResponseAndError(ret[1])

C19_Witness ==
    /\ pc = "done"
    /\ ret # Undefined
    /\ ret[1].status = 200
    /\ ret[1].response # Undefined
    /\ ret[1].error = Undefined
    /\ Len(perfResults) = 2
    /\ perfResults[1].error # Undefined
    /\ perfResults[1].response = Undefined

\* the payload chosen by presence of the fields
PayloadByPresence(b) ==
    IF b.response # Undefined /\ b.response[1].kind = "object"
       /\ b.response[1].processed_response # Undefined
    THEN [kind |-> "string", str |-> b.response[1].processed_response[1]]
    ELSE IF b.response # Undefined
    THEN b.response[1]
    ELSE b

\* C20: on a successful response the payload is
\* body.response.processed_response if that field is present, else
\* body.response if present, else the whole body, for every body shape,
\* a processed_response that is present but empty included.
C20_PayloadByPresence ==
    \A k \in 1..Len(received) :
        (/\ Settled(k)
         /\ received[k].kind = "response"
         /\ received[k].status = 200
         /\ TruthyBody(received[k].body))
            => perfResults[k].response
                   = Some(PayloadByPresence(received[k].body))

----------------------------------------------------------------------------
(* Claims about the cache of the life simulator client *)

\* a step in which p's getLifeSimulation call is made
StartsCall(p) == invs[p].pc = "idle" /\ invs'[p].pc # "idle"

\* a step in which p's fetch succeeds and its result is stored
Stores(p) == invs[p].pc = "fetching" /\ invs'[p].pc = "done"

\* a step in which p's fetch fails
FetchFails(p) == invs[p].pc = "fetching" /\ invs'[p].pc = "failed"

\* every moment the clock reaches lies within the TTL window of every entry
AlwaysWithinTtl == cacheDuration > MaxTime

\* the duration the client was configured with: 300000 when none is given
ConfiguredDuration ==
    IF lifeOptions.cacheDuration = Undefined THEN DefaultCacheDuration
    ELSE lifeOptions.cacheDuration[1]

\* j was called when the result stored by i's fetch was the latest change of
\* the cache, and i's call has not been followed by another of its caller
CalledAfter(i, j) ==
    /\ i # j
    /\ i \in invs[j].after
    /\ invs[i].pc = "done"
    /\ ~invs[i].hit

\* j was called while i was suspended in its network call
CalledDuring(i, j) ==
    /\ i # j
    /\ i \in invs[j].during

\* C11: two getLifeSimulation calls without forceRefresh that pass the same
\* config object within the TTL window invoke the network once: the second
\* returns the data of the first without a fetch, also when current_time
\* is absent from the config at the first call.
C11_SameConfigHits ==
    \A i, j \in Callers :
        (/\ CalledAfter(i, j)
         /\ AlwaysWithinTtl
         /\ ~invs[i].force
         /\ ~invs[j].force
         /\ invs[i].cfg = invs[j].cfg)
            => /\ invs[j].hit
               /\ invs[j].attempts = 0
               /\ invs[j].data = invs[i].data

\* C12: for every configured cacheDuration D (300000 when none is
\* configured), a getLifeSimulation call without forceRefresh for a key
\* whose entry has age >= D fetches instead of returning the entry.
C12_StaleEntryFetches ==
    [][\A p \in Callers :
          (/\ StartsCall(p)
           /\ ~invs'[p].force
           /\ invs'[p].key \in DOMAIN cache
           /\ now - cache[invs'[p].key].timestamp >= ConfiguredDuration)
              => /\ ~invs'[p].hit
                 /\ invs'[p].pc = "fetching"]_vars

\* C13: a call with forceRefresh = true always fetches, also when a fresh
\* entry exists for the key; when the fetch succeeds the entry of the key
\* becomes the new data with the current time and no other entry changes;
\* a following call without forceRefresh for that key within the TTL
\* returns that data without a fetch.
C13_ForcedRefresh ==
    /\ [](\A p \in Callers :
             invs[p].force => ~invs[p].hit /\ invs[p].attempts = 1)
    /\ [][\A p \in Callers :
             /\ (Stores(p) /\ invs[p].force)
                   => /\ DOMAIN cache' = DOMAIN cache \cup {invs[p].key}
                      /\ cache'[invs[p].key] =
                             [data |-> invs'[p].data, timestamp |-> now]
                      /\ \A k \in DOMAIN cache \ {invs[p].key} :
                             cache'[k] = cache[k]
             /\ \A q \in Callers :
                   (/\ StartsCall(p)
                    /\ ~invs'[p].force
                    /\ invs[q].latest
                    /\ invs[q].force
                    /\ invs'[p].key = invs[q].key
                    /\ now - cache[invs[q].key].timestamp < cacheDuration)
                      => /\ invs'[p].hit
                         /\ invs'[p].pc = "done"
                         /\ invs'[p].attempts = 0
                         /\ invs'[p].data = invs[q].data]_vars

\* a forced call made over a fresh entry has replaced it, and the next call
\* for the key came back with the new data at once
C13_Witness ==
    \E i, j \in Callers :
        /\ CalledAfter(i, j)
        /\ AlwaysWithinTtl
        /\ invs[i].force
        /\ invs[i].latest
        /\ ~invs[j].force
        /\ invs[j].key = invs[i].key
        /\ invs[j].hit
        /\ invs[j].data = invs[i].data
        /\ cache[invs[i].key].timestamp < now

\* C14: when the fetch of a getLifeSimulation call fails, the call ends
\* with the error after its one network attempt, without a retry, and the
\* cache is what it was: no entry added, and the entry of the key, if any,
\* with the same data and timestamp.
C14_FailureLeavesCache ==
    /\ [](\A p \in Callers :
             invs[p].pc = "failed"
                 => /\ invs[p].attempts = 1
                    /\ invs[p].error # 0
                    /\ invs[p].data = ""
                    /\ ~invs[p].latest)
    /\ [][\A p \in Callers :
             FetchFails(p)
                 => /\ cache' = cache
                    /\ invs'[p].attempts = invs[p].attempts]_vars

\* a forced call over an existing entry has failed and the entry is still
\* the one the other caller stored
C14_Witness ==
    \E i, j \in Callers :
        /\ CalledAfter(i, j)
        /\ invs[j].pc = "failed"
        /\ invs[j].key = invs[i].key
        /\ invs[i].latest
        /\ invs[j].key \in DOMAIN cache
        /\ cache[invs[j].key].data = invs[i].data

\* C15: clearCache() removes every entry: a call without forceRefresh made
\* right after it, for any key, fetches; onDisable() of the plugin clears
\* the cache in the same way.
C15_ClearCacheEmpties ==
    /\ lastClear # "none" => DOMAIN cache = {}
    /\ \A p \in Callers :
          invs[p].afterClear
              => /\ ~invs[p].hit
                 /\ invs[p].attempts = 1

\* onDisable has emptied a cache that held the entry of a finished fetch, and
\* a call for the same key made after it is fetching
C15_Witness ==
    \E i, j \in Callers :
        /\ lastClear = "onDisable"
        /\ invs[i].pc = "done"
        /\ ~invs[i].hit
        /\ invs[j].afterClear
        /\ ~invs[j].force
        /\ invs[j].key = invs[i].key
        /\ invs[j].pc = "fetching"

\* after two overlapping calls the cache holds what the later write stored
LastWriteWins(i, j) ==
    /\ invs[i].latest => cache[invs[i].key].data = invs[i].data
    /\ invs[j].latest => cache[invs[j].key].data = invs[j].data
    /\ (invs[i].pc = "done" /\ invs[j].pc = "done" /\ lastClear = "none")
          => invs[i].latest # invs[j].latest

\* C16 as stated: any two calls for the same key, the second made while
\* the first is suspended in its network call, both miss, both fetch and
\* both write, and the cache ends with the data of the last write.
C16_OverlappingBothFetch ==
    \A i, j \in Callers :
        (CalledDuring(i, j) /\ invs[i].key = invs[j].key)
            => /\ ~invs[i].hit
               /\ ~invs[j].hit
               /\ invs[i].attempts = 1
               /\ invs[j].attempts = 1
               /\ LastWriteWins(i, j)

\* the cache has no entry for key that a lookup would return
NoFreshEntry(key) ==
    \/ key \notin DOMAIN cache
    \/ now - cache[key].timestamp >= cacheDuration

\* C16: a call for a key made while another call for the same key is
\* suspended in its network call, and while the key has no fresh entry,
\* does not wait for the first: it misses and fetches too; each of the two
\* writes when its fetch succeeds, and the cache ends with the data of the
\* write that happened last, not a merge.
C16_OverlappingLookupsBothFetch ==
    /\ [][\A i, j \in Callers :
             (/\ StartsCall(j)
              /\ invs[i].pc = "fetching"
              /\ invs'[j].key = invs[i].key
              /\ NoFreshEntry(invs[i].key))
                 => /\ ~invs'[j].hit
                    /\ invs'[j].pc = "fetching"
                    /\ invs'[j].attempts = 1
                    /\ invs'[i] = invs[i]]_vars
    /\ [](\A i, j \in Callers :
             (/\ CalledDuring(i, j)
              /\ invs[i].key = invs[j].key
              /\ ~invs[j].hit)
                 => /\ ~invs[i].hit
                    /\ invs[i].attempts = 1
                    /\ invs[j].attempts = 1
                    /\ LastWriteWins(i, j))

\* the call made first wrote last, and its data is what the cache holds
C16_Witness ==
    \E i, j \in Callers :
        /\ CalledDuring(i, j)
        /\ invs[i].key = invs[j].key
        /\ ~invs[i].force
        /\ ~invs[j].force
        /\ invs[i].pc = "done"
        /\ invs[j].pc = "done"
        /\ invs[i].latest
        /\ invs[i].data # invs[j].data
        /\ cache[invs[i].key].data = invs[i].data

----------------------------------------------------------------------------
(* Claims about the recovery decision, the form fields and the log *)

\* the first call of an unguarded, ordinary query has failed
FirstCallFailed ==
    /\ route \in {"initial", "fallback"}
    /\ Len(perfResults) >= 1
    /\ perfResults[1].status # 200

\* a status-500 result whose raw detail carries the marker
MarkerFailure(result) ==
    /\ result.status = 500
    /\ result.raw # Undefined
    /\ result.raw[1].detail = Some("DexScreenerResponse")

\* the options of the fallback call, from the caller's options alone
RecoveryOptions ==
    [tool |-> options.tool, forceWebSearch |-> Some(TRUE),
     sessionId |-> options.sessionId,
     timeout |-> Some(IF options.timeout \in {Undefined, Some(0)}
                      THEN 30000 ELSE options.timeout[1]),
     disableFallback |-> Some(TRUE)]

\* the lines query() logs between its two calls
RecoveryLines == { k \in 1..Len(log) : log[k].at \in {174, 176} }

\* C21: after a failing first call the fallback call is made exactly when
\* the caller named no tool and did not force web search, whatever the
\* class of the failure (status 500 with the DexScreener marker, or any
\* other status or detail), and with options that depend on the caller's
\* options alone; the class shows only in which of the two lines is logged.
C21_SameRecovery ==
    FirstCallFailed =>
        /\ (route = "fallback") = (~CallerTool /\ ~CallerForce)
        /\ route = "fallback" => pending = RecoveryOptions
        /\ Len(perfOpts) >= 2 => perfOpts[2] = RecoveryOptions
        /\ Cardinality(RecoveryLines) = 1
        /\ \A k \in RecoveryLines :
              (log[k].at = 174) = MarkerFailure(perfResults[1])

C21_Witness ==
    /\ FirstCallFailed
    /\ MarkerFailure(perfResults[1])
    /\ route = "fallback"
    /\ Len(calls) = 2
    /\ calls[2].tool = "web_search"
    /\ \E k \in RecoveryLines : log[k].at = 174

\* C29: the tool form field of every network call is the caller's tool
\* when the caller named one, else 'web_search' when forceWebSearch is set
\* in the options of the call, else the empty string; the field is always
\* there, and parameters_str and file are always empty.
C29_ToolFormField ==
    \A i \in 1..Len(calls) :
        /\ i <= Len(perfOpts)
        /\ {"tool", "parameters_str", "file"} \subseteq DOMAIN calls[i]
        /\ calls[i].tool =
              (IF options.tool \notin {Undefined, Some("")}
               THEN options.tool[1]
               ELSE IF perfOpts[i].forceWebSearch = Some(TRUE)
               THEN "web_search"
               ELSE "")
        /\ calls[i].parameters_str = ""
        /\ calls[i].file = ""

C29_Witness ==
    /\ Len(calls) = 1
    /\ options.tool = Some("dexscreener")
    /\ perfOpts[1].forceWebSearch = Some(TRUE)
    /\ calls[1].tool = "dexscreener"
    /\ calls[1].parameters_str = ""

\* C27: every failing result query() returns (a status other than 200, the
\* 401 of the missing credential included) comes after an error log line
\* that carries a session identifier, the caller's when the caller gave one.
C27_FailureLoggedWithSession ==
    (pc = "done" /\ ret # Undefined /\ ret[1].status # 200)
        => \E k \in 1..Len(log) :
              /\ log[k].level = "error"
              /\ log[k].sid # Undefined
              /\ options.sessionId \notin {Undefined, Some("")}
                    => log[k].sid = options.sessionId

\* C30: all the lines logged by one query() invocation, by its first call
\* and by its fallback call, carry one and the same session identifier,
\* given by the caller or generated.
C30_OneSessionIdentifier ==
    \A k, l \in 1..Len(log) :
        /\ log[k].sid # Undefined
        /\ log[k].sid = log[l].sid

----------------------------------------------------------------------------
(* Claims about the life of a cache entry and about request timeouts *)

\* the state of key k in cache c at time t
KeyState(c, k, t) ==
    IF k \notin DOMAIN c THEN "ABSENT"
    ELSE IF t - c[k].timestamp < cacheDuration THEN "FRESH"
    ELSE "STALE"

\* a step of clearCache(), called directly or by onDisable()
Clears ==
    /\ lastClear' # "none"
    /\ DOMAIN cache' = {}
    /\ now' = now
    /\ \A p \in Callers : invs'[p].pc = invs[p].pc

\* C23: for one key the only transitions are ABSENT to FRESH on a store,
\* FRESH to STALE by time passing and back to FRESH on an overwrite; an
\* entry changes only when a fetch for its key stores; no entry is removed
\* on its own, so the set of keys only grows until clearCache() empties it.
C23_KeyLifeCycle ==
    [][/\ \A k \in DOMAIN cache \cup DOMAIN cache' :
             LET before == KeyState(cache, k, now)
                 after == KeyState(cache', k, now')
                 stored == \E p \in Callers : Stores(p) /\ invs[p].key = k
             IN  /\ \/ before = after
                    \/ before = "ABSENT" /\ after = "FRESH" /\ stored
                    \/ before = "STALE" /\ after = "FRESH" /\ stored
                    \/ before = "FRESH" /\ after = "STALE"
                           /\ now' > now /\ cache' = cache
                    \/ after = "ABSENT" /\ Clears
                 /\ (k \in DOMAIN cache /\ k \in DOMAIN cache'
                         /\ cache'[k] # cache[k]) => stored
       /\ \/ DOMAIN cache \subseteq DOMAIN cache'
          \/ Clears]_vars

\* a stale entry is still stored next to a fresh one
C23_Witness ==
    \E k1, k2 \in DOMAIN cache :
        /\ KeyState(cache, k1, now) = "STALE"
        /\ KeyState(cache, k2, now) = "FRESH"

\* C28: every network call carries a finite timeout, so that a call whose
\* server never answers still ends: here, every getLifeSimulation call
\* that is suspended in its request has sent it with a timeout.
C28_RequestsCarryTimeout ==
    \A p \in Callers :
        invs[p].pc = "fetching"
            => FetchRequest(LifeApiBaseUrl, configs[invs[p].cfg]).timeout
                   # Undefined

----------------------------------------------------------------------------
(* Claims about the methods without side effects *)

\* C22: detectRelevance(text) returns true exactly when the lowercased
\* text includes one of the twenty keywords, whatever the case of the
\* text, and leaves the client as it was.
C22_DetectRelevance ==
    probe.fn = "detectRelevance"
        => /\ Len(RelevantKeywords) = 20
           /\ probe.output.result =
                 (\E i \in 1..20 :
                     Includes(ToLowerCase(probe.input), RelevantKeywords[i]))
           /\ probe.output.result =
                 DetectRelevance(ToLowerCase(probe.input)).result
           /\ QueryUnused

\* a keyword in capitals inside a longer text is found
C22_Witness ==
    /\ probe.fn = "detectRelevance"
    /\ probe.input = <<"h","e","l","l","o"," ","E","T","H">>
    /\ probe.output.result

\* the fields the key is made of
KeyTuple(config) == <<config.name, config.residence, config.current_time>>

\* C24: two configs with the same name, residence name and current_time
\* get the same cache key, whatever their other fields are.
C24_EqualTuplesEqualKeys ==
    probe.fn = "getCacheKey"
        => (KeyTuple(probe.input[1]) = KeyTuple(probe.input[2])
               => probe.output[1] = probe.output[2])

C24_Witness ==
    /\ probe.fn = "getCacheKey"
    /\ KeyTuple(probe.input[1]) = KeyTuple(probe.input[2])
    /\ probe.input[1].office # probe.input[2].office
    /\ probe.input[1].occupation # probe.input[2].occupation
    /\ probe.output[1] = probe.output[2]

\* C25: a client constructed with the base URL option U sends its
\* simulation requests to U + '/simulate', and to the default URL only
\* when no base URL is given.
C25_BaseUrlOption ==
    probe.fn = "constructor"
        => probe.output =
              (IF probe.input.apiBaseUrl # Undefined
               THEN probe.input.apiBaseUrl[1] \o "/simulate"
               ELSE "https://state.gmika.io/simulate")

\* residence, office or occupation is missing
MissingRequired(partial) ==
    \/ partial.residence = Undefined
    \/ partial.office = Undefined
    \/ partial.occupation = Undefined

\* C26: a configuration that misses residence, office or occupation is
\* rejected before any network call: mergeWithDefaultConfig throws when
\* one of the three is missing and otherwise returns a config with all
\* three and a current_time, and getLifeSimulation sends no request for
\* such a configuration.
C26_MissingFieldsRejected ==
    /\ probe.fn = "mergeWithDefaultConfig"
          => /\ MissingRequired(probe.input[2]) => probe.output.threw
             /\ ~probe.output.threw
                   => /\ probe.output.config[1].residence # Undefined
                      /\ probe.output.config[1].office # Undefined
                      /\ probe.output.config[1].occupation # Undefined
                      /\ probe.output.config[1].current_time # Undefined
    /\ (probe.fn = "getLifeSimulation" /\ MissingRequired(probe.input))
          => /\ probe.output.kind = "rejected"
             /\ probe.output.requests = 0

----------------------------------------------------------------------------
(* Claims about the meaning of status 200 *)

\* C31: a result returned by query() has status 200 only if it carries a
\* payload and no error message, also when the server answers 200 with an
\* empty body.
C31_Status200MeansSuccess ==
    (pc = "done" /\ ret # Undefined /\ ret[1].status = 200)
        => /\ ret[1].response # Undefined
           /\ ret[1].error = Undefined

----------------------------------------------------------------------------
(* Claims about the caller's config and about overlapping fetches *)

\* C32: getLifeSimulation leaves the caller's config object as it was, on
\* a hit, on a miss and on a failed fetch: every field keeps its value,
\* current_time included, so the config gives the same cache key before
\* and after the call.
C32_ConfigUnchanged ==
    [][\A c \in ConfigIds :
           /\ configs'[c] = configs[c]
           /\ GetCacheKey(configs'[c]) = GetCacheKey(configs[c])]_vars

\* every invocation under way was started before the cache was last emptied
NoneStartedSinceClear ==
    \A q \in Callers : invs[q].pc # "idle" => ~invs[q].afterClear

\* C34: once clearCache() has run, from onDisable or directly, and no
\* getLifeSimulation is started afterwards, the cache stays empty, also
\* when a fetch was in flight at the moment of the clear.
C34_StaysEmptyAfterClear ==
    [][(/\ lastClear # "none"
        /\ NoneStartedSinceClear
        /\ \A q \in Callers : ~StartsCall(q))
           => DOMAIN cache' = {}]_vars

\* C35: of two overlapping fetches for one key, the one that was started
\* last leaves its data in the cache: its result is never overwritten by
\* the result of the fetch that was started before it.
C35_LastStartedWins ==
    \A i, j \in Callers :
        (/\ CalledDuring(i, j)
         /\ invs[i].key = invs[j].key
         /\ invs[i].pc = "done"
         /\ invs[j].pc = "done"
         /\ ~invs[j].hit
         /\ lastClear = "none")
            => /\ invs[j].key \in DOMAIN cache
               /\ cache[invs[j].key].data = invs[j].data

\* C33: two configs whose (name, residence name, current_time) differ
\* never get the same cache key, names that contain '_' and an absent
\* current_time included.
C33_KeyInjective ==
    probe.fn = "getCacheKey"
        => (KeyTuple(probe.input[1]) # KeyTuple(probe.input[2])
               => probe.output[1] # probe.output[2])

----------------------------------------------------------------------------
(* Claims about the MongoDB connection and the agent table *)

\* the MongoClient objects that were created and not closed
OpenClients ==
    { i \in 1..Len(mongoClients) : mongoClients[i] # "closed" }

\* C36: getMongoClient() resolves only with a client whose connect() has
\* completed successfully, for every interleaving of concurrent calls and
\* after a connect() that failed, and no second MongoClient is created
\* while an earlier one has not been closed.
C36_ResolvesConnected ==
    /\ \A u \in MongoCallers :
          mongoCalls[u].pc = "resolved" => mongoCalls[u].state = "connected"
    /\ Cardinality(OpenClients) <= 1

\* the caller is signed in and owns the document
OwnedBy(id, caller) ==
    /\ caller # Undefined
    /\ id \in DOMAIN agents
    /\ agents[id].authUserId = caller[1]

\* C37: an agent document is modified or deleted only by its owner:
\* updateAgent and deleteAgent change the table only when the caller is
\* signed in and the document's authUserId is the caller's id; otherwise
\* (no sign-in, no document, another user's document) they throw and leave
\* every document as it was; createAgent without sign-in inserts nothing.
C37_OnlyOwnerModifies ==
    [][/\ \A i \in DOMAIN agents :
             (i \notin DOMAIN agents' \/ agents'[i] # agents[i])
                => /\ agentCall'.fn \in {"updateAgent", "deleteAgent"}
                   /\ agentCall'.agentId = i
                   /\ OwnedBy(i, agentCall'.caller)
                   /\ ~agentCall'.threw
       /\ \A i \in DOMAIN agents' \ DOMAIN agents :
             /\ agentCall'.fn = "createAgent"
             /\ agentCall'.caller # Undefined
             /\ agents'[i].authUserId = agentCall'.caller[1]
       /\ agentCall'.threw => agents' = agents
       /\ (/\ agentCall'.fn \in {"updateAgent", "deleteAgent"}
           /\ ~OwnedBy(agentCall'.agentId, agentCall'.caller))
             => agentCall'.threw
       /\ (agentCall'.fn = "createAgent" /\ agentCall'.caller = Undefined)
             => agentCall'.threw]_vars

\* another user's attempt to delete a document has thrown and left it
C37_Witness ==
    /\ agentCall.fn = "deleteAgent"
    /\ agentCall.caller = Some("bob")
    /\ agentCall.threw
    /\ agentCall.agentId \in DOMAIN agents
    /\ agents[agentCall.agentId].authUserId = "alice"
    /\ inserted = 2

============================================================================
